---- MODULE Spec2Model ----
(***************************************************************************)
(* Model of src/src/main.rs: the start-up sequence of the wgpu sample and  *)
(* its frame loop ('main: loop), together with the SDL event queue that    *)
(* feeds it.  One action per statement group of main(); the environment    *)
(* contributes the events that SDL queues.                                 *)
(***************************************************************************)
EXTENDS Integers, Sequences, FiniteSets, TLC

VARIABLES
    pc,              \* position of main()
    panicAt,         \* which unwrap()/expect() panicked, "none" if none did
    queue,           \* SDL event queue read by events.poll_iter()
    nextId,          \* identity of the next event SDL queues
    dispatched,      \* events taken from the queue by poll_iter, in order
    handled,         \* events given to imgui_sdl2.handle_event, in order
    built,           \* how many times each start-up resource was constructed
    vertex,          \* bytes of the vertex buffer
    index,           \* bytes of the index buffer
    render_pipeline, \* descriptor the render pipeline was created from
    frame,           \* swap chain image of the frame held, 0 if none
    nextImage,       \* image the swap chain hands out next
    held,            \* frames acquired whose command buffer is not submitted
    cmd,             \* render passes recorded in the command encoder
    submitted,       \* command buffer of the latest queue.submit
    nIter,           \* loop iterations begun       (these three count over
    nAcquired,       \* frames acquired              a window of MaxIter
    nSubmitted,      \* command buffers submitted    iterations, see Submit)
    closeAtDrain,    \* a close event was queued when this drain began
    subAfterClose    \* submissions since a close event was queued, up to 2

vars == <<pc, panicAt, queue, nextId, dispatched, handled, built, vertex,
          index, render_pipeline, frame, nextImage, held, cmd, submitted,
          nIter, nAcquired, nSubmitted, closeAtDrain, subAfterClose>>

evVars == <<queue, nextId, dispatched, handled>>
resVars == <<built, vertex, index, render_pipeline>>
gpuVars == <<frame, nextImage, held, cmd, submitted>>
cntVars == <<nIter, nAcquired, nSubmitted, closeAtDrain, subAfterClose>>

----------------------------------------------------------------------------
(* Bounds of the model *)

MaxEvents == 4
MaxIter == 3
SwapImages == 2

----------------------------------------------------------------------------
(* Data *)

EventKinds == {"WindowClose", "Quit", "KeyDown"}

Resources == {"swap_chain", "vertex", "index", "vert_module", "frag_module",
              "pipeline_layout", "render_pipeline", "imgui"}

F32Size == 4

\* struct Vertex { _pos: [f32; 2], _color: [f32; 3] }, #[repr(C)]
PosFloats == 2
ColorFloats == 3
SizeOfVertex == (PosFloats + ColorFloats) * F32Size

\* the three vertices of the triangle; every coordinate is 0.0 or 1.0
Vertices == << [pos |-> <<0, 0>>, color |-> <<1, 0, 0>>],
               [pos |-> <<1, 0>>, color |-> <<0, 1, 0>>],
               [pos |-> <<0, 1>>, color |-> <<0, 0, 1>>] >>

Indices == <<0, 1, 2>>

RECURSIVE Flatten(_)
Flatten(ss) == IF ss = <<>> THEN <<>> ELSE Head(ss) \o Flatten(Tail(ss))

\* little-endian IEEE-754 bytes of the f32 values 0.0 and 1.0
F32Bytes(x) == IF x = 0 THEN <<0, 0, 0, 0>> ELSE <<0, 0, 128, 63>>

F32FromBytes(b) == IF b = <<0, 0, 0, 0>> THEN 0
                   ELSE IF b = <<0, 0, 128, 63>> THEN 1 ELSE -1

U16Bytes(n) == <<n % 256, n \div 256>>

VertexBytes(v) == Flatten([i \in 1..PosFloats |-> F32Bytes(v.pos[i])])
                  \o Flatten([i \in 1..ColorFloats |-> F32Bytes(v.color[i])])

\* bytemuck::bytes_of(&[Vertex; 3])
VertexBufferContents == Flatten([i \in 1..Len(Vertices) |-> VertexBytes(Vertices[i])])

\* bytemuck::bytes_of(&[0u16, 1, 2])
IndexBufferContents == Flatten([i \in 1..Len(Indices) |-> U16Bytes(Indices[i])])

\* stride: std::mem::size_of::<[f32; 2]>()
VertexStride == PosFloats * F32Size

\* vertex_attr_array![0 => Float2, 1 => Float3]: offsets accumulate
VertexAttributes == << [location |-> 0, offset |-> 0, floats |-> PosFloats],
                       [location |-> 1, offset |-> PosFloats * F32Size,
                        floats |-> ColorFloats] >>

RenderPipelineDescriptor ==
    [ topology |-> "TriangleList", cull_mode |-> "None", front_face |-> "Ccw",
      index_format |-> "Uint16", stride |-> VertexStride,
      step_mode |-> "Vertex", attributes |-> VertexAttributes ]

NoPipeline == [ topology |-> "none" ]

\* byte offset at which the input assembler starts reading vertex i
VertexOffset(p, i) == i * p.stride

ReadF32(buf, off) ==
    IF off + F32Size <= Len(buf)
        THEN F32FromBytes(SubSeq(buf, off + 1, off + F32Size))
        ELSE -1

ReadAttr(buf, off, n) == [k \in 1..n |-> ReadF32(buf, off + (k - 1) * F32Size)]

\* what the vertex shader receives for vertex i
FetchVertex(p, buf, i) ==
    [ pos   |-> ReadAttr(buf, VertexOffset(p, i) + p.attributes[1].offset,
                         p.attributes[1].floats),
      color |-> ReadAttr(buf, VertexOffset(p, i) + p.attributes[2].offset,
                         p.attributes[2].floats) ]

----------------------------------------------------------------------------
(* Control decisions of the frame loop *)

\* a pattern that takes Event::Quit for a close as well
IsCloseOrQuit(ev) == ev.kind \in {"WindowClose", "Quit"}
\* Event::Window { win_event: WindowEvent::Close, .. }
IsWindowClose(ev) == ev.kind = "WindowClose"

\* an unlabelled break, which leaves only the for loop
BreakInner == "get_frame"
\* break 'main
BreakMain == "done"

\* the guard without its negation
ForwardIfIgnored(ignored) == ignored
\* _ if !imgui_sdl2.ignore_event(&event)
Forward(ignored) == ~ignored

\* a loop opened before the buffers are created
LoopHeadBeforeBuffers == "create_vertex"
\* 'main: loop {
LoopHead == "poll"

\* an acquisition error answered by trying again
RetryFrame == "get_frame"
\* .expect("Error getting current frame")
OnFrameError == "panic"

\* a second pass that clears like the first
PassBClear == "Clear"
\* load: LoadOp::Load of the second pass
PassBLoad == "Load"

\* an iteration that ends without queue.submit
SkipSubmit == "poll"
\* the statement after the second pass's block
AfterPassB == "submit"

\* pass.draw(0..3, 0..1)
DrawCall == [ op |-> "draw", indexed |-> FALSE, first |-> 0, count |-> 3,
              first_instance |-> 0, instances |-> 1 ]

PassACommands == << [op |-> "set_pipeline"], [op |-> "set_vertex_buffer"],
                    [op |-> "set_index_buffer"], DrawCall >>

HasClose(q) == \E i \in 1..Len(q) : q[i].kind = "WindowClose"

CloseEnqueued == HasClose(queue) \/ HasClose(dispatched)

----------------------------------------------------------------------------
Init ==
    /\ pc = "sdl_init"
    /\ panicAt = "none"
    /\ queue = <<>>
    /\ nextId = 1
    /\ dispatched = <<>>
    /\ handled = <<>>
    /\ built = [r \in Resources |-> 0]
    /\ vertex = <<>>
    /\ index = <<>>
    /\ render_pipeline = NoPipeline
    /\ frame = 0
    /\ nextImage = 1
    /\ held = 0
    /\ cmd = <<>>
    /\ submitted = <<>>
    /\ nIter = 0
    /\ nAcquired = 0
    /\ nSubmitted = 0
    /\ closeAtDrain = FALSE
    /\ subAfterClose = 0

Panic(what) == pc' = "panic" /\ panicAt' = what

Build(r) == built' = [built EXCEPT ![r] = @ + 1]

\* SDL queues an event; the pump exists once sdl.event_pump() has returned
Enqueue ==
    /\ pc \notin {"sdl_init", "done", "panic"}
    /\ nextId <= MaxEvents
    /\ \E k \in EventKinds : queue' = Append(queue, [id |-> nextId, kind |-> k])
    /\ nextId' = nextId + 1
    /\ UNCHANGED <<pc, panicAt, dispatched, handled, resVars, gpuVars, cntVars>>

\* sdl2::init, event_pump, video, window: each unwrap()ed
InitSdl ==
    /\ pc = "sdl_init"
    /\ \E ok \in BOOLEAN :
          IF ok THEN pc' = "request_adapter" /\ panicAt' = panicAt
                ELSE Panic("sdl")
    /\ UNCHANGED <<evVars, resVars, gpuVars, cntVars>>

RequestAdapter ==
    /\ pc = "request_adapter"
    /\ \E ok \in BOOLEAN :
          IF ok THEN pc' = "request_device" /\ panicAt' = panicAt
                ELSE Panic("adapter")
    /\ UNCHANGED <<evVars, resVars, gpuVars, cntVars>>

RequestDevice ==
    /\ pc = "request_device"
    /\ \E ok \in BOOLEAN :
          IF ok THEN pc' = "create_swap_chain" /\ panicAt' = panicAt
                ELSE Panic("device")
    /\ UNCHANGED <<evVars, resVars, gpuVars, cntVars>>

CreateSwapChain ==
    /\ pc = "create_swap_chain"
    /\ Build("swap_chain")
    /\ pc' = "create_vertex"
    /\ UNCHANGED <<panicAt, evVars, vertex, index, render_pipeline, gpuVars, cntVars>>

CreateVertexBuffer ==
    /\ pc = "create_vertex"
    /\ Build("vertex")
    /\ vertex' = VertexBufferContents
    /\ pc' = "create_index"
    /\ UNCHANGED <<panicAt, evVars, index, render_pipeline, gpuVars, cntVars>>

CreateIndexBuffer ==
    /\ pc = "create_index"
    /\ Build("index")
    /\ index' = IndexBufferContents
    /\ pc' = "create_shaders"
    /\ UNCHANGED <<panicAt, evVars, vertex, render_pipeline, gpuVars, cntVars>>

CreateShaderModules ==
    /\ pc = "create_shaders"
    /\ built' = [built EXCEPT !["vert_module"] = @ + 1, !["frag_module"] = @ + 1]
    /\ pc' = "create_pipeline"
    /\ UNCHANGED <<panicAt, evVars, vertex, index, render_pipeline, gpuVars, cntVars>>

CreateRenderPipeline ==
    /\ pc = "create_pipeline"
    /\ built' = [built EXCEPT !["pipeline_layout"] = @ + 1,
                              !["render_pipeline"] = @ + 1]
    /\ render_pipeline' = RenderPipelineDescriptor
    /\ pc' = "init_imgui"
    /\ UNCHANGED <<panicAt, evVars, vertex, index, gpuVars, cntVars>>

\* imgui context, platform and renderer; control then enters 'main: loop
InitImgui ==
    /\ pc = "init_imgui"
    /\ Build("imgui")
    /\ pc' = LoopHead
    /\ nIter' = nIter + 1
    /\ closeAtDrain' = HasClose(queue)
    /\ UNCHANGED <<panicAt, evVars, vertex, index, render_pipeline, gpuVars,
                   nAcquired, nSubmitted, subAfterClose>>

\* poll_iter yields the close event: break 'main
PollClose ==
    /\ pc = "poll"
    /\ queue # <<>>
    /\ IsWindowClose(Head(queue))
    /\ queue' = Tail(queue)
    /\ dispatched' = Append(dispatched, [id |-> Head(queue).id,
                             kind |-> Head(queue).kind, ignored |-> FALSE])
    /\ pc' = BreakMain
    /\ UNCHANGED <<panicAt, nextId, handled, resVars, gpuVars, cntVars>>

\* poll_iter yields another event: handle_event unless ignore_event says so
PollOther ==
    /\ pc = "poll"
    /\ queue # <<>>
    /\ ~IsWindowClose(Head(queue))
    /\ queue' = Tail(queue)
    /\ \E ignored \in BOOLEAN :
          /\ dispatched' = Append(dispatched, [id |-> Head(queue).id,
                                   kind |-> Head(queue).kind, ignored |-> ignored])
          /\ handled' = IF Forward(ignored) THEN Append(handled, Head(queue).id)
                                            ELSE handled
    /\ UNCHANGED <<pc, panicAt, nextId, resVars, gpuVars, cntVars>>

\* poll_iter yields None: the for loop ends
PollEmpty ==
    /\ pc = "poll"
    /\ queue = <<>>
    /\ pc' = "get_frame"
    /\ UNCHANGED <<panicAt, evVars, resVars, gpuVars, cntVars>>

\* swap_chain.get_current_frame().expect(..)
GetCurrentFrame ==
    /\ pc = "get_frame"
    /\ \E ok \in BOOLEAN :
          IF ok
            THEN /\ frame' = nextImage
                 /\ nextImage' = (nextImage % SwapImages) + 1
                 /\ held' = held + 1
                 /\ nAcquired' = nAcquired + 1
                 /\ pc' = "create_encoder"
                 /\ panicAt' = panicAt
            ELSE /\ pc' = OnFrameError
                 /\ panicAt' = "frame"
                 /\ UNCHANGED <<frame, nextImage, held, nAcquired>>
    /\ UNCHANGED <<evVars, resVars, cmd, submitted, nIter, nSubmitted,
                   closeAtDrain, subAfterClose>>

CreateCommandEncoder ==
    /\ pc = "create_encoder"
    /\ cmd' = <<>>
    /\ pc' = "pass_a_begin"
    /\ UNCHANGED <<panicAt, evVars, resVars, frame, nextImage, held, submitted, cntVars>>

BeginPassA ==
    /\ pc = "pass_a_begin"
    /\ cmd' = Append(cmd, [load |-> "Clear", target |-> frame, cmds |-> <<>>,
                           ended |-> FALSE])
    /\ pc' = "pass_a_record"
    /\ UNCHANGED <<panicAt, evVars, resVars, frame, nextImage, held, submitted, cntVars>>

\* set_pipeline, set_vertex_buffer, set_index_buffer, draw
RecordPassA ==
    /\ pc = "pass_a_record"
    /\ cmd' = [cmd EXCEPT ![Len(cmd)].cmds = @ \o PassACommands]
    /\ pc' = "pass_a_end"
    /\ UNCHANGED <<panicAt, evVars, resVars, frame, nextImage, held, submitted, cntVars>>

\* the first pass is dropped at the end of its block
EndPassA ==
    /\ pc = "pass_a_end"
    /\ cmd' = [cmd EXCEPT ![Len(cmd)].ended = TRUE]
    /\ pc' = "pass_b_begin"
    /\ UNCHANGED <<panicAt, evVars, resVars, frame, nextImage, held, submitted, cntVars>>

BeginPassB ==
    /\ pc = "pass_b_begin"
    /\ cmd' = Append(cmd, [load |-> PassBLoad, target |-> frame, cmds |-> <<>>,
                           ended |-> FALSE])
    /\ pc' = "imgui_render"
    /\ UNCHANGED <<panicAt, evVars, resVars, frame, nextImage, held, submitted, cntVars>>

\* prepare_frame .. imgui_wgpu.render(..).expect("Error rendering imgui")
RenderImgui ==
    /\ pc = "imgui_render"
    /\ \E ok \in BOOLEAN :
          IF ok
            THEN /\ cmd' = [cmd EXCEPT ![Len(cmd)].cmds =
                                           Append(@, [op |-> "imgui_draw_data"])]
                 /\ pc' = "pass_b_end"
                 /\ panicAt' = panicAt
            ELSE /\ Panic("imgui")
                 /\ cmd' = cmd
    /\ UNCHANGED <<evVars, resVars, frame, nextImage, held, submitted, cntVars>>

EndPassB ==
    /\ pc = "pass_b_end"
    /\ cmd' = [cmd EXCEPT ![Len(cmd)].ended = TRUE]
    /\ pc' = AfterPassB
    /\ UNCHANGED <<panicAt, evVars, resVars, frame, nextImage, held, submitted, cntVars>>

\* queue.submit(Some(cmd.finish())); the frame is dropped and the loop repeats.
\* The loop has no iteration limit: once MaxIter iterations are counted the
\* oldest one is forgotten, which lowers the three counters by one together.
Submit ==
    /\ pc = "submit"
    /\ submitted' = cmd
    /\ cmd' = <<>>
    /\ held' = held - 1
    /\ frame' = 0
    /\ IF nIter < MaxIter
          THEN /\ nIter' = nIter + 1
               /\ nSubmitted' = nSubmitted + 1
               /\ nAcquired' = nAcquired
          ELSE /\ nIter' = nIter
               /\ nSubmitted' = nSubmitted
               /\ nAcquired' = nAcquired - 1
    /\ subAfterClose' = IF CloseEnqueued /\ subAfterClose < 2
                            THEN subAfterClose + 1 ELSE subAfterClose
    /\ closeAtDrain' = HasClose(queue)
    /\ pc' = LoopHead
    /\ UNCHANGED <<panicAt, evVars, resVars, nextImage>>

Main ==
    \/ InitSdl \/ RequestAdapter \/ RequestDevice \/ CreateSwapChain
    \/ CreateVertexBuffer \/ CreateIndexBuffer \/ CreateShaderModules
    \/ CreateRenderPipeline \/ InitImgui
    \/ PollClose \/ PollOther \/ PollEmpty
    \/ GetCurrentFrame \/ CreateCommandEncoder
    \/ BeginPassA \/ RecordPassA \/ EndPassA
    \/ BeginPassB \/ RenderImgui \/ EndPassB
    \/ Submit

Next == Enqueue \/ Main

Spec == Init /\ [][Next]_vars

\* main() runs on one thread that nothing preempts: it takes its next step
FairSpec == Spec /\ WF_vars(Main)

----------------------------------------------------------------------------
(* Vocabulary of the properties *)

Last(s) == s[Len(s)]

StartupFailures == {"sdl", "adapter", "device"}
FrameFailures == {"frame", "imgui"}

DrainPcs == {"poll", "get_frame"}
RecordPcs == {"create_encoder", "pass_a_begin", "pass_a_record", "pass_a_end",
              "pass_b_begin", "imgui_render", "pass_b_end", "submit"}
LoopPcs == DrainPcs \cup RecordPcs

LoopEntered == nIter > 0

Draws(pass) == SelectSeq(pass.cmds, LAMBDA c : c.op = "draw")

Ids(s) == [i \in 1..Len(s) |-> s[i].id]

ForwardedEvents == SelectSeq(dispatched,
                             LAMBDA e : e.kind # "WindowClose" /\ ~e.ignored)

\* every completed iteration acquired one frame and submitted one command
\* buffer; the current one has acquired one once it is past get_frame
OnePerIteration ==
    IF pc \in DrainPcs
        THEN nAcquired = nIter - 1 /\ nSubmitted = nIter - 1
        ELSE nAcquired = nIter /\ nSubmitted = nIter - 1

PassAShape(p, target) ==
    /\ p.load = "Clear"
    /\ p.target = target
    /\ p.cmds = PassACommands
    /\ p.ended

PassBShape(p, target) ==
    /\ p.load = "Load"
    /\ p.target = target
    /\ p.cmds = << [op |-> "imgui_draw_data"] >>
    /\ p.ended

OncePerProcess == {"vertex", "index", "vert_module", "frag_module",
                   "render_pipeline"}

----------------------------------------------------------------------------
(* C1: a window-close event, wherever it stands in the drained batch, takes *)
(* the loop to TERMINATED (pc = "done"); from then on no frame is acquired, *)
(* no render pass is recorded and no command buffer is submitted.           *)
C1_CloseTerminates ==
    /\ [](pc = "done" => /\ dispatched # <<>>
                         /\ Last(dispatched).kind = "WindowClose"
                         /\ held = 0 /\ frame = 0 /\ cmd = <<>>)
    /\ [][(Len(dispatched') > Len(dispatched)
            /\ Last(dispatched').kind = "WindowClose") => pc' = "done"]_vars
    /\ [][pc = "done" => (pc' = "done" /\ nAcquired' = nAcquired
                           /\ cmd' = cmd /\ nSubmitted' = nSubmitted)]_vars

\* the close event stood behind another event and before a third one in the
\* first batch drained
C1_Witness ==
    /\ pc = "done"
    /\ nIter = 1
    /\ Len(dispatched) >= 2
    /\ queue # <<>>

C3_AcquireSubmitAlternate ==
    /\ held <= 1
    /\ held = nAcquired - nSubmitted
    /\ (pc \in DrainPcs => held = 0)
    /\ (pc \in RecordPcs => held = 1)

\* a second frame is held, the first one having been submitted
C3_Witness ==
    /\ held = 1
    /\ nAcquired >= 2
    /\ nSubmitted = nAcquired - 1

C5_OneIndexedDraw ==
    \A i \in 1..Len(cmd) :
        (cmd[i].load = "Clear" /\ cmd[i].ended) =>
            /\ Len(Draws(cmd[i])) = 1
            /\ Draws(cmd[i])[1].indexed
            /\ Draws(cmd[i])[1].count = 3
            /\ Draws(cmd[i])[1].instances = 1

C7_StrideIsVertexSize ==
    render_pipeline # NoPipeline =>
        /\ SizeOfVertex = 20
        /\ render_pipeline.stride = SizeOfVertex
        /\ \A i \in 0..(Len(Vertices) - 1) :
               VertexOffset(render_pipeline, i) = i * SizeOfVertex

(* C8: every error path ends the process.  After a start-up failure the     *)
(* loop is never entered and no frame is acquired; after a failed frame     *)
(* acquisition or overlay rendering the iteration submits nothing, and      *)
(* nothing is acquired, recorded or submitted afterwards.                   *)
C8_ErrorsAreFatal ==
    /\ []((panicAt # "none") <=> (pc = "panic"))
    /\ [](panicAt \in StartupFailures =>
              /\ ~LoopEntered /\ nAcquired = 0 /\ nSubmitted = 0
              /\ cmd = <<>> /\ submitted = <<>>)
    /\ [](panicAt \in FrameFailures => LoopEntered /\ nSubmitted = nIter - 1)
    /\ [][panicAt # "none" =>
              (pc' = "panic" /\ nAcquired' = nAcquired /\ cmd' = cmd
               /\ nSubmitted' = nSubmitted /\ nIter' = nIter)]_vars

\* overlay rendering failed in the second iteration
C8_Witness ==
    /\ pc = "panic"
    /\ panicAt = "imgui"
    /\ nIter = 2
    /\ nSubmitted = 1

C10_Dispatch ==
    /\ Ids(dispatched) \o Ids(queue) = [i \in 1..(nextId - 1) |-> i]
    /\ handled = Ids(ForwardedEvents)
    /\ \A i \in 1..Len(dispatched) :
           dispatched[i].kind = "WindowClose" =>
               /\ i = Len(dispatched)
               /\ pc = "done"
               /\ \A j \in 1..Len(handled) : handled[j] # dispatched[i].id

\* one event was forwarded, one was ignored, the close event ended the loop
\* and one event is left behind it
C10_Witness ==
    /\ pc = "done"
    /\ queue # <<>>
    /\ handled # <<>>
    /\ \E i \in 1..Len(dispatched) : dispatched[i].ignored

====
